---- MODULE Spec2Model ----
(***************************************************************************)
(* Model of the meeting-transcription-agent server: the client audio       *)
(* bridge (src/src/audio/client_bridge.py), the transcription service      *)
(* (src/src/transcription/service.py) and the tool-call handler            *)
(* (src/src/main.py).                                                      *)
(*                                                                         *)
(* Python values are modelled as follows.  bytes are sequences of integers *)
(* 0..255.  A base64 text is a sequence of symbols: 0..63 are the sextets  *)
(* of the base64 alphabet, PadSym is '=', JunkSym is a character outside   *)
(* the alphabet.  A dict key that is missing, or a None, is Absent.  A     *)
(* method's outcome is a record whose field exc names the exception it     *)
(* raised ("" when it returned).                                           *)
(***************************************************************************)
EXTENDS Integers, Sequences, FiniteSets, TLC

\* ------------------------------------------------------------------ bounds
MaxChunks == 2

\* --------------------------------------------------------------- constants
Absent == -1
PadSym == 64
JunkSym == 65
DefaultSampleRate == 16000
DefaultChannels == 1
DefaultChunkDuration == 5
BytesPerSample == 2

SessionIds == {"s1", "s2"}

\* ------------------------------------------------------------------ inputs
\* "QQ==", "QkM=", "", "QQ=" (incorrect padding), "!QQ==" (a stray character)
B64_A == <<16, 16, PadSym, PadSym>>
B64_BC == <<16, 36, 12, PadSym>>
B64_Empty == <<>>
B64_BadPadding == <<16, 16, PadSym>>
B64_Stray == <<JunkSym, 16, 16, PadSym, PadSym>>
NoneArg == <<Absent>>

Payloads == {B64_A, B64_BC, B64_BadPadding, B64_Stray, NoneArg}

Cfg(sr, ch, cd) == [sample_rate |-> sr, channels |-> ch, chunk_duration |-> cd]
Configs == {Cfg(Absent, Absent, Absent), Cfg(0, 1, Absent)}

\* ------------------------------------------------------------ pure helpers
\* dict.get(key, default) on a field that may be missing
Get(v, default) == IF v = Absent THEN default ELSE v

RECURSIVE Join(_)
\* b''.join(list of bytes)
Join(chunks) ==
    IF chunks = <<>> THEN <<>> ELSE Head(chunks) \o Join(Tail(chunks))

ChunkData(buf) == [i \in 1..Len(buf) |-> buf[i].data]

RECURSIVE A2B(_, _, _, _, _)
\* binascii.a2b_base64 in its default (non-strict) mode, which base64.b64decode
\* calls: characters outside the alphabet are skipped, a sufficient run of pads
\* after at least two sextets of a quad ends the input, and a quad left
\* unfinished at the end is an error.
A2B(s, quad_pos, leftchar, pads, out) ==
    IF s = <<>> THEN
        IF quad_pos # 0 THEN [exc |-> "binascii.Error", bytes |-> <<>>]
        ELSE [exc |-> "", bytes |-> out]
    ELSE LET c == Head(s) IN
        IF c = PadSym THEN
            IF quad_pos >= 2 /\ quad_pos + pads + 1 >= 4
            THEN [exc |-> "", bytes |-> out]
            ELSE A2B(Tail(s), quad_pos, leftchar,
                     IF quad_pos >= 2 THEN pads + 1 ELSE pads, out)
        ELSE IF c >= 64 \/ c < 0 THEN A2B(Tail(s), quad_pos, leftchar, pads, out)
        ELSE CASE quad_pos = 0 -> A2B(Tail(s), 1, c, 0, out)
               [] quad_pos = 1 ->
                    A2B(Tail(s), 2, c % 16, 0,
                        Append(out, (leftchar * 4 + c \div 16) % 256))
               [] quad_pos = 2 ->
                    A2B(Tail(s), 3, c % 4, 0,
                        Append(out, (leftchar * 16 + c \div 4) % 256))
               [] OTHER ->
                    A2B(Tail(s), 0, 0, 0,
                        Append(out, (leftchar * 64 + c) % 256))

\* base64.b64decode(audio_data): a TypeError for a non-string, else a2b_base64
B64Decode(audio_data) ==
    IF audio_data = NoneArg THEN [exc |-> "TypeError", bytes |-> <<>>]
    ELSE A2B(audio_data, 0, 0, 0, <<>>)

\* ------------------------------------------------------------------- state
VARIABLES
    active_sessions,   \* ClientAudioBridge.active_sessions: id -> session dict
    audio_buffers,     \* ClientAudioBridge.audio_buffers: id -> list of chunk_info
    now,               \* the value time.time() returns
    ret,               \* the outcome of the last bridge call
    accepted,          \* history: per id, the decoded chunks of the
                       \* receive_audio_chunk calls that returned, since the
                       \* last successful start of that id
    unreturned,        \* history: per id, the chunks appended to its buffer
                       \* that no stop has returned yet
    prior,             \* history: per id, "finalized" once a stop has completed
                       \* the session, "cleaned" once cleanup_session removed a
                       \* finalized session, "none" otherwise
    session_transcripts, \* TranscriptionService.session_transcripts
    device_sessions,   \* MeetingTranscriptionServer.active_sessions
    active_streams,    \* AudioCapture.active_streams (the ids)
    exports,           \* the files export_transcript_to_file has written
    tasks,             \* per id, the stop_client_recording coroutine that is
                       \* suspended at an await, if any
    resp,              \* the response call_tool returned last
    chunk_numbers,     \* history: per id, the chunk_number of every
                       \* send_audio_chunk response that was not an error
    ollama_post_processor, \* TranscriptionService.ollama_post_processor is set
    stream,            \* the AudioStream of a device capture: its fields
    thread,            \* where AudioCapture._record_thread of that stream is
    reader,            \* where a get_audio_data call on that stream is
    captured,          \* history: the buffers the audio callback appended
    returned           \* history: the bytes get_audio_data calls returned

bridge_vars == <<active_sessions, audio_buffers, now, ret, accepted, unreturned, prior>>
capture_vars == <<stream, thread, reader, captured, returned>>
server_vars == <<session_transcripts, device_sessions, active_streams, exports,
                 tasks, resp, chunk_numbers, ollama_post_processor, capture_vars>>
vars == <<bridge_vars, server_vars>>

Outcome(S, B, exc, val) == [exc |-> exc, val |-> val, sessions |-> S, buffers |-> B]
NoVal == [none |-> TRUE]

Put(f, k, v) == [x \in DOMAIN f \cup {k} |-> IF x = k THEN v ELSE f[x]]
Del(f, k) == [x \in DOMAIN f \ {k} |-> f[x]]

\* -------------------------------------------------- ClientAudioBridge
NewSession(config, t) ==
    [config |-> config,
     status |-> "waiting_for_audio",
     start_time |-> t,
     chunk_count |-> 0,
     total_audio_duration |-> 0,
     last_chunk_time |-> Absent,
     end_time |-> Absent,
     final_audio_size |-> Absent]

IsActive(S, session_id) == session_id \in DOMAIN S

\* a start that does not look for the id in the store
start_client_recording_overwrite(S, B, t, session_id, config) ==
    Outcome(Put(S, session_id, NewSession(config, t)),
            Put(B, session_id, <<>>),
            "",
            [sample_rate |-> Get(config.sample_rate, DefaultSampleRate),
             channels |-> Get(config.channels, DefaultChannels),
             status |-> "waiting_for_audio",
             session_id |-> session_id,
             chunk_size_ms |-> Get(config.chunk_duration, DefaultChunkDuration) * 1000])

start_client_recording(S, B, t, session_id, config) ==
    IF IsActive(S, session_id)
    THEN Outcome(S, B, "ValueError", [msg |-> "already active"])
    ELSE Outcome(Put(S, session_id, NewSession(config, t)),
                 Put(B, session_id, <<>>),
                 "",
                 [sample_rate |-> Get(config.sample_rate, DefaultSampleRate),
                  channels |-> Get(config.channels, DefaultChannels),
                  status |-> "waiting_for_audio",
                  session_id |-> session_id,
                  chunk_size_ms |-> Get(config.chunk_duration, DefaultChunkDuration) * 1000])

ChunkInfo(audio_bytes, t) ==
    [data |-> audio_bytes, timestamp |-> t, size |-> Len(audio_bytes)]

AppendChunk(buf, chunk_info) == Append(buf, chunk_info)

\* a count that is not advanced
SameChunkCount(c) == c

NextChunkCount(c) == c + 1

\* len(audio_bytes) / (sample_rate * channels * bytes_per_sample), in whole
\* microseconds; the caller has excluded a zero divisor
DurationSeconds(n, sample_rate, channels) ==
    (n * 1000000) \div (sample_rate * channels * BytesPerSample)

receive_audio_chunk(S, B, t, session_id, audio_data) ==
    IF ~IsActive(S, session_id)
    THEN Outcome(S, B, "ValueError", [msg |-> "not found"])
    ELSE LET dec == B64Decode(audio_data) IN
    IF dec.exc # ""
    THEN Outcome(S, B, "ValueError", [msg |-> "Invalid base64 audio data"])
    ELSE IF session_id \notin DOMAIN B
    THEN Outcome(S, B, "KeyError", [msg |-> session_id])
    ELSE LET audio_bytes == dec.bytes
             session == S[session_id]
             B1 == [B EXCEPT ![session_id] = AppendChunk(@, ChunkInfo(audio_bytes, t))]
             s1 == [session EXCEPT !.chunk_count = NextChunkCount(@),
                                   !.status = "receiving_audio",
                                   !.last_chunk_time = t]
             sample_rate == Get(session.config.sample_rate, DefaultSampleRate)
             channels == Get(session.config.channels, DefaultChannels)
         IN
         IF sample_rate * channels * BytesPerSample = 0
         THEN Outcome([S EXCEPT ![session_id] = s1], B1, "ZeroDivisionError",
                      [msg |-> "division by zero"])
         ELSE LET s2 == [s1 EXCEPT !.total_audio_duration =
                             @ + DurationSeconds(Len(audio_bytes), sample_rate, channels)]
              IN Outcome([S EXCEPT ![session_id] = s2], B1, "",
                         [status |-> "chunk_received",
                          session_id |-> session_id,
                          chunk_number |-> s2.chunk_count,
                          chunk_size_bytes |-> Len(audio_bytes),
                          total_chunks |-> s2.chunk_count,
                          total_duration_seconds |-> s2.total_audio_duration])

CombinedAudio(audio_chunks) == Join(ChunkData(audio_chunks))

\* a stop that empties the buffer and keeps its entry
EmptiedBuffer(B, session_id) == [B EXCEPT ![session_id] = <<>>]

\* a stop that leaves the buffer as it is
KeptBuffer(B, session_id) == B

\* a stop that drops the buffers of every session
DropAllBuffers(B, session_id) == << >>

DropBuffer(B, session_id) == Del(B, session_id)

stop_client_recording(S, B, t, session_id) ==
    IF ~IsActive(S, session_id)
    THEN Outcome(S, B, "ValueError", [msg |-> "not found"])
    ELSE LET audio_chunks == IF session_id \in DOMAIN B THEN B[session_id] ELSE <<>>
             combined_audio == CombinedAudio(audio_chunks)
             s1 == [S[session_id] EXCEPT !.status = "completed",
                                         !.end_time = t,
                                         !.final_audio_size = Len(combined_audio)]
             S1 == [S EXCEPT ![session_id] = s1]
         IN
         IF session_id \notin DOMAIN B
         THEN Outcome(S1, B, "KeyError", [msg |-> session_id])
         ELSE Outcome(S1, DropBuffer(B, session_id), "",
                      [audio_data |-> combined_audio,
                       status |-> "completed",
                       session_id |-> session_id,
                       total_chunks |-> s1.chunk_count,
                       total_duration_seconds |-> s1.total_audio_duration,
                       total_audio_bytes |-> Len(combined_audio),
                       session_duration |-> s1.end_time - s1.start_time])

\* a status call that records itself as the session's last activity
get_client_session_status_touching(S, B, t, session_id) ==
    IF ~IsActive(S, session_id)
    THEN Outcome(S, B, "ValueError", [msg |-> "not found"])
    ELSE LET session == [S[session_id] EXCEPT !.last_chunk_time = t] IN
         Outcome([S EXCEPT ![session_id] = session], B, "",
                 [config |-> session.config,
                  status |-> session.status,
                  total_audio_duration |-> session.total_audio_duration,
                  session_id |-> session_id,
                  duration_seconds |-> t - session.start_time,
                  chunks_received |-> session.chunk_count,
                  last_activity |-> Get(session.last_chunk_time, session.start_time)])

get_client_session_status(S, B, t, session_id) ==
    IF ~IsActive(S, session_id)
    THEN Outcome(S, B, "ValueError", [msg |-> "not found"])
    ELSE LET session == S[session_id] IN
         Outcome(S, B, "",
                 [config |-> session.config,
                  status |-> session.status,
                  total_audio_duration |-> session.total_audio_duration,
                  session_id |-> session_id,
                  duration_seconds |-> t - session.start_time,
                  chunks_received |-> session.chunk_count,
                  last_activity |-> Get(session.last_chunk_time, session.start_time)])

\* Optional[bytes]: has is FALSE for None
get_audio_data(B, session_id) ==
    IF session_id \notin DOMAIN B
    THEN [bytes |-> <<>>, has |-> FALSE]
    ELSE [bytes |-> Join(ChunkData(B[session_id])), has |-> TRUE]

\* a cleanup that forgets the session entry
cleanup_session_buffers_only(S, B, session_id) ==
    Outcome(S, Del(B, session_id), "", NoVal)

cleanup_session(S, B, session_id) ==
    Outcome(Del(S, session_id), Del(B, session_id), "", NoVal)

\* ------------------------------------------- the bridge as a state machine
Called(op, session_id, out) ==
    [exc |-> out.exc, val |-> out.val, op |-> op, sid |-> session_id]

\* ret when the step called no bridge method
NoCall == [exc |-> "", val |-> NoVal, op |-> "none", sid |-> ""]
NoTask == [pc |-> "none"]
NoResponse == [exc |-> "", val |-> NoVal, sid |-> "", tool |-> "", kind |-> "none"]

\* AudioStream.__init__: a stream that is not recording, with an empty buffer,
\* no device stream and a stop event that is clear. The device stream is
\* "none", "active" (opened and delivering), "inactive" (it ended by itself),
\* "stopped" or "closed".
NewAudioStream ==
    [stream |-> "none", is_recording |-> FALSE, audio_buffer |-> <<>>,
     stop_event |-> FALSE]
\* no get_audio_data call is running
NoReader == [pc |-> "none"]
\* no device capture was started
NoCapture ==
    /\ stream = NewAudioStream
    /\ thread = "none"
    /\ reader = NoReader
    /\ captured = <<>>
    /\ returned = <<>>

Init ==
    /\ active_sessions = << >>
    /\ audio_buffers = << >>
    /\ now = 1
    /\ ret = NoCall
    /\ accepted = [id \in SessionIds |-> <<>>]
    /\ unreturned = [id \in SessionIds |-> <<>>]
    /\ prior = [id \in SessionIds |-> "none"]
    /\ session_transcripts = << >>
    /\ device_sessions = << >>
    /\ active_streams = {}
    /\ exports = << >>
    /\ tasks = [id \in SessionIds |-> NoTask]
    /\ resp = NoResponse
    /\ chunk_numbers = [id \in SessionIds |-> <<>>]
    /\ ollama_post_processor = FALSE
    /\ NoCapture

StartClientRecording(session_id, config) ==
    LET out == start_client_recording(active_sessions, audio_buffers, now,
                                      session_id, config) IN
    /\ active_sessions' = out.sessions
    /\ audio_buffers' = out.buffers
    /\ ret' = Called("start_client_recording", session_id, out)
    /\ accepted' = IF out.exc = "" THEN [accepted EXCEPT ![session_id] = <<>>]
                   ELSE accepted
    /\ unreturned' = IF out.exc = "" THEN [unreturned EXCEPT ![session_id] = <<>>]
                     ELSE unreturned
    /\ UNCHANGED <<now, prior>>

ReceiveAudioChunk(session_id, audio_data) ==
    LET out == receive_audio_chunk(active_sessions, audio_buffers, now,
                                   session_id, audio_data)
        grew == /\ session_id \in DOMAIN audio_buffers
                /\ session_id \in DOMAIN out.buffers
                /\ out.buffers[session_id] # audio_buffers[session_id]
    IN
    /\ session_id \in DOMAIN audio_buffers
          => Len(audio_buffers[session_id]) < MaxChunks
    /\ active_sessions' = out.sessions
    /\ audio_buffers' = out.buffers
    /\ ret' = Called("receive_audio_chunk", session_id, out)
    /\ accepted' = IF out.exc = ""
                   THEN [accepted EXCEPT ![session_id] =
                             Append(@, B64Decode(audio_data).bytes)]
                   ELSE accepted
    /\ unreturned' = IF grew
                     THEN [unreturned EXCEPT ![session_id] =
                               Append(@, B64Decode(audio_data).bytes)]
                     ELSE unreturned
    /\ UNCHANGED <<now, prior>>

StopClientRecording(session_id) ==
    LET out == stop_client_recording(active_sessions, audio_buffers, now, session_id) IN
    /\ active_sessions' = out.sessions
    /\ audio_buffers' = out.buffers
    /\ ret' = Called("stop_client_recording", session_id, out)
    /\ unreturned' = IF out.exc = "" THEN [unreturned EXCEPT ![session_id] = <<>>]
                     ELSE unreturned
    /\ prior' = IF IsActive(active_sessions, session_id)
                THEN [prior EXCEPT ![session_id] = "finalized"]
                ELSE prior
    /\ UNCHANGED <<now, accepted>>

GetClientSessionStatus(session_id) ==
    LET out == get_client_session_status(active_sessions, audio_buffers, now,
                                         session_id) IN
    /\ active_sessions' = out.sessions
    /\ audio_buffers' = out.buffers
    /\ ret' = Called("get_client_session_status", session_id, out)
    /\ UNCHANGED <<now, accepted, unreturned, prior>>

CleanupSession(session_id) ==
    LET out == cleanup_session(active_sessions, audio_buffers, session_id) IN
    /\ active_sessions' = out.sessions
    /\ audio_buffers' = out.buffers
    /\ ret' = Called("cleanup_session", session_id, out)
    /\ prior' = IF prior[session_id] = "finalized"
                THEN [prior EXCEPT ![session_id] = "cleaned"]
                ELSE prior
    /\ accepted' = [accepted EXCEPT ![session_id] = <<>>]
    /\ unreturned' = [unreturned EXCEPT ![session_id] = <<>>]
    /\ UNCHANGED now

Next ==
    \/ \E id \in SessionIds, config \in Configs :
          StartClientRecording(id, config) /\ UNCHANGED server_vars
    \/ \E id \in SessionIds, audio_data \in Payloads :
          ReceiveAudioChunk(id, audio_data) /\ UNCHANGED server_vars
    \/ \E id \in SessionIds : StopClientRecording(id) /\ UNCHANGED server_vars
    \/ \E id \in SessionIds : GetClientSessionStatus(id) /\ UNCHANGED server_vars
    \/ \E id \in SessionIds : CleanupSession(id) /\ UNCHANGED server_vars

Spec == Init /\ [][Next]_vars

\* ------------------------------------------------- TranscriptionService
\* A str is a sequence of one-character strings; " " is the only whitespace.
\* A confidence is in hundredths.
WhisperConfidence == 90
ErrorText == <<"[Local Whisper Error]">>
\* what model.transcribe may put in result["text"]
RawTexts == {<<" ", "h", "i">>, <<>>}

RECURSIVE LStrip(_)
LStrip(str) == IF str # <<>> /\ Head(str) = " " THEN LStrip(Tail(str)) ELSE str

RECURSIVE RStrip(_)
RStrip(str) ==
    IF str # <<>> /\ str[Len(str)] = " "
    THEN RStrip(SubSeq(str, 1, Len(str) - 1)) ELSE str

\* str.strip()
Strip(str) == RStrip(LStrip(str))

RECURSIVE SplitFrom(_, _, _)
SplitFrom(str, word, words) ==
    IF str = <<>>
    THEN IF word = <<>> THEN words ELSE Append(words, word)
    ELSE IF Head(str) = " "
         THEN SplitFrom(Tail(str), <<>>,
                        IF word = <<>> THEN words ELSE Append(words, word))
         ELSE SplitFrom(Tail(str), Append(word, Head(str)), words)

\* str.split()
Split(str) == SplitFrom(str, <<>>, <<>>)

RECURSIVE JoinWithSpace(_)
\* ' '.join(strs)
JoinWithSpace(strs) ==
    IF strs = <<>> THEN <<>>
    ELSE IF Len(strs) = 1 THEN Head(strs)
    ELSE Head(strs) \o <<" ">> \o JoinWithSpace(Tail(strs))

RECURSIVE Sum(_)
Sum(ns) == IF ns = <<>> THEN 0 ELSE Head(ns) + Sum(Tail(ns))

Max(ns) == CHOOSE n \in ns : \A m \in ns : m <= n
Min(ns) == CHOOSE n \in ns : \A m \in ns : n <= m

\* TranscriptionResult(text, confidence, timestamp): a timestamp that is None
\* (or 0) becomes time.time()
TranscriptionResult(text, confidence, timestamp, t) ==
    [timestamp |-> IF timestamp = Absent \/ timestamp = 0 THEN t ELSE timestamp,
     text |-> text,
     confidence |-> confidence]

\* LocalWhisperProvider.transcribe_audio after model.transcribe came back:
\* asr is the text it returned, or Absent when it (or the preparation of the
\* audio file) raised
WhisperResult(asr, t) ==
    IF asr = <<Absent>>
    THEN TranscriptionResult(ErrorText, 0, Absent, t)
    ELSE TranscriptionResult(Strip(asr), WhisperConfidence, t, t)

\* the sample rate LocalWhisperProvider.transcribe_audio writes the audio with
WhisperSampleRate(session_config) ==
    LET sample_rate == Get(session_config.sample_rate, DefaultSampleRate) IN
    IF sample_rate <= 0 THEN DefaultSampleRate ELSE sample_rate

\* self.session_transcripts[session_id].append(result)
StoreResult(T, session_id, result) ==
    IF session_id \in DOMAIN T
    THEN [T EXCEPT ![session_id] = Append(@, result)]
    ELSE Put(T, session_id, <<result>>)

\* transcribe_audio_chunk for audio that is not empty, from the point where
\* the provider came back: the result is stored and returned, whatever it is
transcribe_audio_chunk(T, session_id, asr, t) ==
    LET result == WhisperResult(asr, t) IN
    [exc |-> "", val |-> result, transcripts |-> StoreResult(T, session_id, result)]

\* self.session_transcripts.get(session_id, [])
TranscriptResults(T, session_id) ==
    IF session_id \in DOMAIN T THEN T[session_id] ELSE <<>>

\* a join that takes the texts of all results, blank or not
AllSeqText(results) == [i \in 1..Len(results) |-> results[i].text]

SelectSeqText(results) ==
    LET nonblank == SelectSeq(results, LAMBDA r : Strip(r.text) # <<>>)
    IN [i \in 1..Len(nonblank) |-> nonblank[i].text]

\* ' '.join(result.text for result in transcript_results if result.text.strip())
AssembledText(results) == JoinWithSpace(SelectSeqText(results))

\* What requests.post came back with: status_code 0 stands for a call that
\* raised (timeout, connection refused, a body that is not JSON)
NoReply == [status_code |-> 0, response |-> <<>>]
OllamaReplies ==
    {NoReply, [status_code |-> 500, response |-> <<>>]}
        \cup {[status_code |-> 200, response |-> text] :
                 text \in {<<"H", "i", ".", " ">>, <<" ", "h", "i">>, <<>>}}

\* a post-processor whose failed call yields no text
post_process_transcript_or_nothing(raw_transcript, reply) ==
    IF reply.status_code = 200 THEN Strip(reply.response) ELSE <<>>

\* a post-processor that returns the reply as it came
post_process_transcript_unstripped(raw_transcript, reply) ==
    IF reply.status_code = 200 THEN reply.response ELSE raw_transcript

\* OllamaPostProcessor.post_process_transcript
post_process_transcript(raw_transcript, reply) ==
    IF reply.status_code = 200 THEN Strip(reply.response) ELSE raw_transcript

\* self.ollama_post_processor together with what its call would come back with
NoPostProcessor == [reply |-> NoReply, configured |-> FALSE]

\* a count of the words of the text as it was assembled
AssembledWordCount(full_text, assembled) ==
    IF assembled # <<>> THEN Len(Split(assembled)) ELSE 0

\* len(full_text.split()) if full_text else 0
WordCount(full_text, assembled) ==
    IF full_text # <<>> THEN Len(Split(full_text)) ELSE 0

\* get_final_transcript
get_final_transcript(T, session_id, post_processor) ==
    LET transcript_results == TranscriptResults(T, session_id) IN
    IF transcript_results = <<>>
    THEN [full_text |-> <<>>, segments |-> <<>>, word_count |-> 0, duration |-> 0,
          confidence_average |-> 0, post_processed |-> FALSE]
    ELSE LET assembled == AssembledText(transcript_results)
             called == post_processor.configured /\ assembled # <<>>
             processed_text ==
                 IF called
                 THEN post_process_transcript(assembled, post_processor.reply)
                 ELSE assembled
             post_processed == called /\ processed_text # assembled
             full_text == IF post_processed THEN processed_text ELSE assembled
             stamps == {transcript_results[i].timestamp :
                            i \in 1..Len(transcript_results)}
             positive == SelectSeq(transcript_results, LAMBDA r : r.confidence > 0)
             valid_confidences == [i \in 1..Len(positive) |-> positive[i].confidence]
         IN [full_text |-> full_text,
             segments |-> transcript_results,
             word_count |-> WordCount(full_text, assembled),
             duration |-> Max(stamps) - Min(stamps),
             confidence_average |->
                 IF valid_confidences # <<>>
                 THEN Sum(valid_confidences) \div Len(valid_confidences) ELSE 0,
             post_processed |-> post_processed,
             provider |-> "unknown"]

\* the seconds a segment that carries no end_timestamp is taken to last
DefaultSegmentSeconds == 3

\* start_time = segment['timestamp']
SegmentStart(segment) == segment.timestamp

\* end_time = segment.get('end_timestamp', start_time + 3): no segment the
\* service builds has an end_timestamp
SegmentEnd(segment) == SegmentStart(segment) + DefaultSegmentSeconds

RECURSIVE DecimalDigits(_)
\* the decimal digits of a natural number, most significant first
DecimalDigits(n) ==
    IF n < 10 THEN <<n>> ELSE Append(DecimalDigits(n \div 10), n % 10)

\* f"{n:0{width}d}": zero-padded to width digits at least, never cut
ZeroPad(n, width) ==
    LET digits == DecimalDigits(n) IN
    IF Len(digits) >= width THEN digits
    ELSE [i \in 1..(width - Len(digits)) |-> 0] \o digits

\* _format_srt_timestamp, the four fields of f"{hours:02d}:{minutes:02d}:
\* {seconds:02d},{milliseconds:03d}"; the model's timestamps are whole seconds
format_srt_timestamp(timestamp) ==
    [hours |-> ZeroPad(timestamp \div 3600, 2),
     minutes |-> ZeroPad((timestamp % 3600) \div 60, 2),
     seconds |-> ZeroPad(timestamp % 60, 2),
     milliseconds |-> ZeroPad((timestamp % 1) * 1000, 3)]

\* a segment numbered from 0, as enumerate(segments) would
SrtBlockFromZero(segment, i) ==
    <<[digits |-> DecimalDigits(i - 1), line |-> "index"],
      [line |-> "times",
       start |-> format_srt_timestamp(SegmentStart(segment)),
       end |-> format_srt_timestamp(SegmentEnd(segment))],
      [text |-> segment.text, line |-> "text"],
      [line |-> "blank"]>>

\* the four lines export_transcript appends to srt_content for the i-th segment
SrtBlock(segment, i) ==
    <<[digits |-> DecimalDigits(i), line |-> "index"],
      [line |-> "times",
       start |-> format_srt_timestamp(SegmentStart(segment)),
       end |-> format_srt_timestamp(SegmentEnd(segment))],
      [text |-> segment.text, line |-> "text"],
      [line |-> "blank"]>>

RECURSIVE SrtLines(_, _)
SrtLines(segments, i) ==
    IF i > Len(segments) THEN <<>>
    ELSE SrtBlock(segments[i], i) \o SrtLines(segments, i + 1)

\* srt_content for enumerate(segments, 1): the lines '\n'.join puts together
SrtContent(segments) == SrtLines(segments, 1)

\* str.lower() on the format values the model passes
Lower(format) ==
    CASE format = "JSON" -> "json"
      [] OTHER -> format

\* export_transcript: the text it returns, or the ValueError it raises
export_transcript(T, session_id, format, post_processor) ==
    LET final_transcript == get_final_transcript(T, session_id, post_processor) IN
    IF Lower(format) \in {"json", "txt"}
    THEN [exc |-> "", val |-> [format |-> Lower(format),
                               transcript |-> final_transcript]]
    ELSE IF Lower(format) = "srt"
    THEN [exc |-> "", val |-> [format |-> "srt",
                               transcript |-> final_transcript,
                               content |-> SrtContent(final_transcript.segments)]]
    ELSE [exc |-> "ValueError", val |-> [msg |-> "Unsupported export format"]]

\* ------------------------------------------- MeetingTranscriptionServer
DeviceChunkDuration == 30
StopSampleRate == 16000
StopChannels == 1

Raised(exc, msg) == [exc |-> exc, val |-> [msg |-> msg]]
Returned(val) == [exc |-> "", val |-> val]

\* dict.get(key) on the arguments of a tool call
ArgGet(arguments, key) == IF key \in DOMAIN arguments THEN arguments[key] ELSE Absent

\* the arguments dict read as a client session config
ConfigOf(arguments) ==
    Cfg(ArgGet(arguments, "sample_rate"), ArgGet(arguments, "channels"),
        ArgGet(arguments, "chunk_duration"))

\* start_recording_session over the session map D and the capture's streams A
start_recording_session(D, A, t, session_id, audio_config) ==
    IF "microphone_device" \notin DOMAIN audio_config
    THEN [exc |-> "ValueError", val |-> [msg |-> "Microphone device must be specified"], sessions |-> D,
          streams |-> A]
    ELSE IF "speaker_device" \notin DOMAIN audio_config
    THEN [exc |-> "ValueError", val |-> [msg |-> "Speaker device must be specified"], sessions |-> D,
          streams |-> A]
    ELSE IF session_id \in A
    THEN [exc |-> "ValueError", val |-> [msg |-> "already active"], sessions |-> D,
          streams |-> A]
    ELSE [exc |-> "",
          val |-> [status |-> "recording", session_id |-> session_id,
                   message |-> "Recording session started successfully"],
          sessions |-> Put(D, session_id,
                           [config |-> [sample_rate |-> DefaultSampleRate,
                                        channels |-> DefaultChannels,
                                        chunk_duration |-> DeviceChunkDuration,
                                        session_id |-> session_id,
                                        microphone_device |-> audio_config.microphone_device,
                                        speaker_device |-> audio_config.speaker_device],
                            status |-> "recording",
                            start_time |-> t,
                            end_time |-> Absent,
                            transcripts |-> <<>>,
                            final_transcript |-> NoVal]),
          streams |-> A \cup {session_id}]

stop_recording_session(D, A, T, t, session_id) ==
    IF session_id \notin DOMAIN D
    THEN [exc |-> "ValueError", val |-> [msg |-> "not found"], sessions |-> D,
          streams |-> A]
    ELSE LET final_transcript == get_final_transcript(T, session_id, NoPostProcessor)
             session == [D[session_id] EXCEPT !.status = "completed",
                                              !.final_transcript = final_transcript,
                                              !.end_time = t]
         IN [exc |-> "",
             val |-> [status |-> "completed", session_id |-> session_id,
                      duration |-> session.end_time - session.start_time,
                      transcript |-> final_transcript],
             sessions |-> [D EXCEPT ![session_id] = session],
             streams |-> A \ {session_id}]

get_session_status(D, t, session_id) ==
    IF session_id \notin DOMAIN D
    THEN Raised("ValueError", "not found")
    ELSE LET session == D[session_id] IN
         Returned([config |-> session.config,
                   status |-> session.status,
                   session_id |-> session_id,
                   duration |-> t - session.start_time,
                   transcript_count |-> Len(session.transcripts)])

\* list_devices is a coroutine function that is called without await: what
\* comes back is the coroutine object
list_audio_devices == Returned([coroutine |-> "list_devices"])

\* .get on the coroutine object raises AttributeError, which the method turns
\* into a result that carries the error
get_device_selection_options(session_id) ==
    Returned([session_id |-> session_id, error |-> "AttributeError",
              available_microphones |-> <<>>, available_speakers |-> <<>>])

get_audio_instructions(instruction_type) ==
    IF instruction_type \in {"web_audio", "desktop"}
    THEN Returned([instructions |-> instruction_type])
    ELSE Raised("ValueError", "Unknown instruction type")

\* a stop that hands the audio to the transcription whatever its length
server_stop_client_recording_any_audio(out) ==
    IF out.exc # ""
    THEN [exc |-> out.exc, val |-> out.val, go |-> FALSE]
    ELSE [exc |-> "", val |-> out.val, go |-> TRUE]

\* the part of the server's stop_client_recording that runs before the await:
\* go is TRUE when it goes on to transcribe the audio
server_stop_client_recording(out) ==
    IF out.exc # ""
    THEN [exc |-> out.exc, val |-> out.val, go |-> FALSE]
    ELSE IF Len(out.val.audio_data) > 0
    THEN [exc |-> "", val |-> out.val, go |-> TRUE]
    ELSE [exc |-> "", val |-> Put(out.val, "transcript",
                      [full_text |-> <<>>, segments |-> <<>>, word_count |-> 0]),
          go |-> FALSE]

\* the part that runs after transcribe_audio_chunk came back
server_stop_client_recording_resume(T, result, session_id) ==
    Returned(Put(result, "transcript",
                 get_final_transcript(T, session_id, NoPostProcessor)))

\* the path of the file an export without file_path writes
ExportPath(session_id, format, t) ==
    [session_id |-> session_id, timestamp |-> t, extension |-> Lower(format)]

\* an export to file that writes the file whatever
\* export_transcript did
export_transcript_to_file_unchecked(T, F, t, session_id, format, post_processor) ==
    LET file_path == ExportPath(session_id, format, t)
        content == get_final_transcript(T, session_id, post_processor)
    IN [out |-> Returned([session_id |-> session_id, format |-> format,
                          file_path |-> file_path,
                          success |-> TRUE,
                          content_preview |-> content]),
        files |-> Put(F, file_path, content)]

export_transcript_to_file(T, F, t, session_id, format, post_processor) ==
    LET transcript_content ==
            export_transcript(T, session_id, format, post_processor) IN
    IF transcript_content.exc # ""
    THEN [out |-> Returned([session_id |-> session_id, format |-> format,
                            error |-> transcript_content.val.msg,
                            file_path |-> Absent,
                            success |-> FALSE]),
          files |-> F]
    ELSE LET file_path == ExportPath(session_id, format, t) IN
         [out |-> Returned([session_id |-> session_id, format |-> format,
                            file_path |-> file_path,
                            success |-> TRUE,
                            content_preview |-> transcript_content.val]),
          files |-> Put(F, file_path, transcript_content.val)]

list_exported_transcripts(F) ==
    Returned([files |-> DOMAIN F, total_files |-> Cardinality(DOMAIN F)])

\* include_metadata is left at its default
get_transcript_content_for_editor(T, session_id, format) ==
    LET final_transcript == get_final_transcript(T, session_id, NoPostProcessor) IN
    CASE Lower(format) = "txt" -> Returned([text |-> final_transcript.full_text])
      [] Lower(format) = "json" -> Returned([text |-> final_transcript])
      [] Lower(format) = "srt" ->
             Returned([text |-> export_transcript(T, session_id, "srt", NoPostProcessor).val])
      [] Lower(format) = "markdown" ->
             Returned([text |-> [markdown |-> final_transcript]])
      [] OTHER -> Returned([text |-> "Error retrieving transcript: Unsupported format"])

\* ------------------------------------------------------------ call_tool
ExceptionClasses ==
    {"TypeError", "ValueError", "KeyError", "ZeroDivisionError", "AttributeError"}

\* an except clause that names ValueError alone
CaughtValueError(exc) == exc = "ValueError"

\* except Exception
Caught(exc) == exc \in ExceptionClasses

\* json.dumps(result, indent=2): a bytes value and a coroutine object are not
\* JSON serializable
JsonDumps(out) ==
    IF out.exc = "" /\ {"audio_data", "coroutine"} \cap DOMAIN out.val # {}
    THEN Raised("TypeError", "not JSON serializable")
    ELSE out

\* what call_tool hands back for a branch that ended as out
TextContent(name, sid, out) ==
    IF out.exc = ""
    THEN [exc |-> "", val |-> out.val, sid |-> sid, tool |-> name, kind |-> "result"]
    ELSE IF Caught(out.exc)
    THEN [exc |-> out.exc, val |-> out.val, sid |-> sid, tool |-> name,
          kind |-> "error"]
    ELSE [exc |-> out.exc, val |-> out.val, sid |-> sid, tool |-> name,
          kind |-> "unhandled"]

\* the coroutine is suspended at an await: no response yet
Pending(name, sid) ==
    [exc |-> "", val |-> NoVal, sid |-> sid, tool |-> name, kind |-> "pending"]

\* arguments["session_id"] raises KeyError
MissingArgument(name, key) == TextContent(name, "", Raised("KeyError", key))

OfRet(r) == [exc |-> r.exc, val |-> r.val]

\* ------------------------------------------- the server as a state machine
\* The arguments the tools are called with. A dict without "session_id" is a
\* call that misspells the key.
ToolPayloads == {B64_A, B64_BadPadding}
ToolIds == {"s1"}
NoSessionId == [sessionId |-> "s1"]
StartClientArguments ==
    {[session_id |-> id] : id \in ToolIds}
        \cup {[sample_rate |-> 0, session_id |-> id] : id \in ToolIds}
        \cup {NoSessionId}
SendArguments ==
    {[audio_data |-> d, session_id |-> id] : id \in ToolIds, d \in ToolPayloads}
        \cup {[session_id |-> "s1"], NoSessionId}
SessionArguments == {[session_id |-> id] : id \in ToolIds} \cup {NoSessionId}
FormatArguments ==
    SessionArguments \cup {[session_id |-> id, format |-> "xml"] : id \in ToolIds}
ExportArguments ==
    FormatArguments \cup {[session_id |-> id, format |-> "JSON"] : id \in ToolIds}
StartRecordingArguments ==
    {[session_id |-> id, microphone_device |-> "default", speaker_device |-> "default"] :
        id \in ToolIds}
        \cup {[session_id |-> id, microphone_device |-> "default"] : id \in ToolIds}
        \cup {NoSessionId}
InstructionArguments == {NoSessionId, [instruction_type |-> "desktop"],
                         [instruction_type |-> "mobile"]}
AsrOutcomes == RawTexts \cup {<<Absent>>}

NoBridgeCall ==
    /\ ret' = NoCall
    /\ UNCHANGED <<active_sessions, audio_buffers, now, accepted, unreturned, prior>>

\* a branch of call_tool that touches nothing but what it answers
Answers(response) ==
    /\ resp' = response
    /\ NoBridgeCall
    /\ UNCHANGED <<session_transcripts, device_sessions, active_streams, exports,
                   tasks, chunk_numbers, ollama_post_processor, capture_vars>>

ToolStartRecording(arguments) ==
    LET name == "start_recording" IN
    IF "session_id" \notin DOMAIN arguments
    THEN Answers(MissingArgument(name, "session_id"))
    ELSE LET session_id == arguments.session_id IN
    IF {"microphone_device", "speaker_device"} \ DOMAIN arguments # {}
    THEN Answers(TextContent(name, session_id,
             JsonDumps(Returned(Put(get_device_selection_options(session_id).val,
                                    "message", "Please select devices")))))
    ELSE LET out == start_recording_session(device_sessions, active_streams, now,
                                            session_id, arguments) IN
         /\ device_sessions' = out.sessions
         /\ active_streams' = out.streams
         /\ resp' = TextContent(name, session_id, JsonDumps(OfRet(out)))
         /\ NoBridgeCall
         /\ UNCHANGED <<session_transcripts, exports, tasks, chunk_numbers,
                        ollama_post_processor, capture_vars>>

ToolStopRecording(arguments) ==
    LET name == "stop_recording" IN
    IF "session_id" \notin DOMAIN arguments
    THEN Answers(MissingArgument(name, "session_id"))
    ELSE LET session_id == arguments.session_id
             out == stop_recording_session(device_sessions, active_streams,
                                           session_transcripts, now, session_id)
         IN
         /\ device_sessions' = out.sessions
         /\ active_streams' = out.streams
         /\ resp' = TextContent(name, session_id, JsonDumps(OfRet(out)))
         /\ NoBridgeCall
         /\ UNCHANGED <<session_transcripts, exports, tasks, chunk_numbers,
                        ollama_post_processor, capture_vars>>

ToolGetSessionStatus(arguments) ==
    LET name == "get_session_status" IN
    IF "session_id" \notin DOMAIN arguments
    THEN Answers(MissingArgument(name, "session_id"))
    ELSE Answers(TextContent(name, arguments.session_id,
             JsonDumps(get_session_status(device_sessions, now, arguments.session_id))))

ToolListAudioDevices ==
    Answers(TextContent("list_audio_devices", "", JsonDumps(list_audio_devices)))

ToolStartClientRecording(arguments) ==
    LET name == "start_client_recording" IN
    IF "session_id" \notin DOMAIN arguments
    THEN Answers(MissingArgument(name, "session_id"))
    ELSE LET session_id == arguments.session_id IN
         /\ StartClientRecording(session_id, ConfigOf(arguments))
         /\ resp' = TextContent(name, session_id, JsonDumps(OfRet(ret')))
         /\ chunk_numbers' = IF ret'.exc = ""
                             THEN [chunk_numbers EXCEPT ![session_id] = <<>>]
                             ELSE chunk_numbers
         /\ UNCHANGED <<session_transcripts, device_sessions, active_streams,
                        exports, tasks, ollama_post_processor, capture_vars>>

ToolSendAudioChunk(arguments) ==
    LET name == "send_audio_chunk" IN
    IF "session_id" \notin DOMAIN arguments
    THEN Answers(MissingArgument(name, "session_id"))
    ELSE IF "audio_data" \notin DOMAIN arguments
    THEN Answers(TextContent(name, arguments.session_id,
                             Raised("KeyError", "audio_data")))
    ELSE LET session_id == arguments.session_id IN
         /\ ReceiveAudioChunk(session_id, arguments.audio_data)
         /\ resp' = TextContent(name, session_id, JsonDumps(OfRet(ret')))
         /\ chunk_numbers' = IF resp'.kind = "result"
                             THEN [chunk_numbers EXCEPT ![session_id] =
                                       Append(@, resp'.val.chunk_number)]
                             ELSE chunk_numbers
         /\ UNCHANGED <<session_transcripts, device_sessions, active_streams,
                        exports, tasks, ollama_post_processor, capture_vars>>

\* up to the await of the speech recognition, or to the response when the
\* handler does not get that far
ToolStopClientRecording(arguments) ==
    LET name == "stop_client_recording" IN
    IF "session_id" \notin DOMAIN arguments
    THEN Answers(MissingArgument(name, "session_id"))
    ELSE LET session_id == arguments.session_id IN
         /\ StopClientRecording(session_id)
         /\ LET before == server_stop_client_recording(OfRet(ret')) IN
            IF before.go
            THEN /\ tasks' = [tasks EXCEPT ![session_id] =
                                 [audio_data |-> before.val.audio_data,
                                  pc |-> "asr",
                                  session_config |-> Cfg(StopSampleRate, StopChannels,
                                                         Absent),
                                  result |-> before.val]]
                 /\ resp' = Pending(name, session_id)
            ELSE /\ tasks' = tasks
                 /\ resp' = TextContent(name, session_id,
                                        JsonDumps([exc |-> before.exc,
                                                   val |-> before.val]))
         /\ UNCHANGED <<session_transcripts, device_sessions, active_streams,
                        exports, chunk_numbers, ollama_post_processor, capture_vars>>

\* model.transcribe comes back in its worker thread, with a text or with an
\* exception, and the suspended stop_client_recording runs to its response
AsrReturn(session_id, asr) ==
    /\ tasks[session_id].pc = "asr"
    /\ LET T == transcribe_audio_chunk(session_transcripts, session_id, asr,
                                       now).transcripts
       IN /\ session_transcripts' = T
          /\ resp' = TextContent("stop_client_recording", session_id,
                         JsonDumps(server_stop_client_recording_resume(
                                       T, tasks[session_id].result, session_id)))
    /\ tasks' = [tasks EXCEPT ![session_id] = NoTask]
    /\ NoBridgeCall
    /\ UNCHANGED <<device_sessions, active_streams, exports, chunk_numbers,
                   ollama_post_processor, capture_vars>>

ToolGetClientSessionStatus(arguments) ==
    LET name == "get_client_session_status" IN
    IF "session_id" \notin DOMAIN arguments
    THEN Answers(MissingArgument(name, "session_id"))
    ELSE /\ GetClientSessionStatus(arguments.session_id)
         /\ resp' = TextContent(name, arguments.session_id, JsonDumps(OfRet(ret')))
         /\ UNCHANGED <<session_transcripts, device_sessions, active_streams,
                        exports, tasks, chunk_numbers, ollama_post_processor, capture_vars>>

ToolGetAudioInstructions(arguments) ==
    Answers(TextContent("get_audio_instructions", "",
        JsonDumps(get_audio_instructions(
            IF "instruction_type" \in DOMAIN arguments
            THEN arguments.instruction_type ELSE "web_audio"))))

ToolExportTranscript(arguments, reply) ==
    LET name == "export_transcript" IN
    IF "session_id" \notin DOMAIN arguments
    THEN Answers(MissingArgument(name, "session_id"))
    ELSE LET session_id == arguments.session_id
             format == IF "format" \in DOMAIN arguments THEN arguments.format
                       ELSE "json"
             done == export_transcript_to_file(
                         session_transcripts, exports, now, session_id, format,
                         [reply |-> reply, configured |-> ollama_post_processor])
         IN
         /\ exports' = done.files
         /\ resp' = TextContent(name, session_id, JsonDumps(done.out))
         /\ NoBridgeCall
         /\ UNCHANGED <<session_transcripts, device_sessions, active_streams,
                        tasks, chunk_numbers, ollama_post_processor, capture_vars>>

ToolListExportedTranscripts ==
    Answers(TextContent("list_exported_transcripts", "",
                        JsonDumps(list_exported_transcripts(exports))))

ToolGetDeviceSelectionOptions(arguments) ==
    LET name == "get_device_selection_options" IN
    IF "session_id" \notin DOMAIN arguments
    THEN Answers(MissingArgument(name, "session_id"))
    ELSE Answers(TextContent(name, arguments.session_id,
                     JsonDumps(get_device_selection_options(arguments.session_id))))

ToolGetTranscriptContent(arguments) ==
    LET name == "get_transcript_content" IN
    IF "session_id" \notin DOMAIN arguments
    THEN Answers(MissingArgument(name, "session_id"))
    ELSE Answers(TextContent(name, arguments.session_id,
             get_transcript_content_for_editor(
                 session_transcripts, arguments.session_id,
                 IF "format" \in DOMAIN arguments THEN arguments.format ELSE "txt")))

ToolUnknown ==
    Answers(TextContent("no_such_tool", "", Raised("ValueError", "Unknown tool")))

ToolNext ==
    \/ \E arguments \in StartRecordingArguments : ToolStartRecording(arguments)
    \/ \E arguments \in SessionArguments : ToolStopRecording(arguments)
    \/ \E arguments \in SessionArguments : ToolGetSessionStatus(arguments)
    \/ ToolListAudioDevices
    \/ \E arguments \in StartClientArguments : ToolStartClientRecording(arguments)
    \/ \E arguments \in SendArguments : ToolSendAudioChunk(arguments)
    \/ \E arguments \in SessionArguments : ToolStopClientRecording(arguments)
    \/ \E id \in ToolIds, asr \in AsrOutcomes : AsrReturn(id, asr)
    \/ \E arguments \in SessionArguments : ToolGetClientSessionStatus(arguments)
    \/ \E arguments \in InstructionArguments : ToolGetAudioInstructions(arguments)
    \/ \E arguments \in ExportArguments : ToolExportTranscript(arguments, NoReply)
    \/ ToolListExportedTranscripts
    \/ \E arguments \in SessionArguments : ToolGetDeviceSelectionOptions(arguments)
    \/ \E arguments \in FormatArguments : ToolGetTranscriptContent(arguments)
    \/ ToolUnknown

ToolSpec == Init /\ [][ToolNext]_vars

\* ------------------------------------------- two sessions and the event loop
\* model.transcribe called in the event loop's own thread: while it runs the
\* loop runs nothing else
LoopBlockedByAsr(task) == task.pc = "asr"

\* await asyncio.to_thread(self.model.transcribe, audio_file): the call runs
\* in a worker thread, the coroutine is suspended and the event loop is free
\* for other handlers
LoopBlockedBy(task) == FALSE

\* the event loop can start a handler
LoopFree == \A id \in SessionIds : ~LoopBlockedBy(tasks[id])

ConcurrentStartArguments == {[session_id |-> id] : id \in SessionIds}
ConcurrentSendArguments ==
    {[audio_data |-> d, session_id |-> id] : id \in SessionIds, d \in ToolPayloads}

ConcurrentNext ==
    \/ \E arguments \in ConcurrentStartArguments :
          LoopFree /\ ToolStartClientRecording(arguments)
    \/ \E arguments \in ConcurrentSendArguments :
          LoopFree /\ ToolSendAudioChunk(arguments)
    \/ \E arguments \in ConcurrentStartArguments :
          LoopFree /\ ToolStopClientRecording(arguments)
    \/ \E id \in SessionIds, asr \in AsrOutcomes : AsrReturn(id, asr)

ConcurrentSpec == Init /\ [][ConcurrentNext]_vars

\* ------------------------------------------- one session, stop and transcribe
\* Chunks of one byte and of no bytes; a start with the defaults and one with
\* sample_rate 0.
StopPayloads == {B64_A, B64_Empty}
StopSendArguments ==
    {[audio_data |-> d, session_id |-> id] : id \in ToolIds, d \in StopPayloads}

StopNext ==
    \/ \E arguments \in StartClientArguments : ToolStartClientRecording(arguments)
    \/ \E arguments \in StopSendArguments : ToolSendAudioChunk(arguments)
    \/ \E arguments \in SessionArguments : ToolStopClientRecording(arguments)
    \/ \E id \in ToolIds, asr \in AsrOutcomes : AsrReturn(id, asr)
    \/ \E arguments \in SessionArguments : ToolGetClientSessionStatus(arguments)

StopSpec == Init /\ [][StopNext]_vars

\* ------------------------------------------ the transcript of one session
\* A TranscriptionService, with or without a post-processor, that transcribes
\* the audio of one session piece by piece while the clock advances, and is
\* asked for the session's transcript.
MaxSegments == 2
MaxClock == 2
TranscriptIds == {"s1"}
\* what model.transcribe may put in result["text"], or Absent when it raised
TranscriptAsrOutcomes ==
    {<<" ", "h", "i">>, <<"y", "o">>, <<>>, <<Absent>>}
ExportFormats == {"JSON", "json", "txt", "xml"}

TranscriptInit ==
    /\ active_sessions = << >>
    /\ audio_buffers = << >>
    /\ now = 1
    /\ ret = NoCall
    /\ accepted = [id \in SessionIds |-> <<>>]
    /\ unreturned = [id \in SessionIds |-> <<>>]
    /\ prior = [id \in SessionIds |-> "none"]
    /\ session_transcripts = << >>
    /\ device_sessions = << >>
    /\ active_streams = {}
    /\ exports = << >>
    /\ tasks = [id \in SessionIds |-> NoTask]
    /\ resp = NoResponse
    /\ chunk_numbers = [id \in SessionIds |-> <<>>]
    /\ ollama_post_processor \in BOOLEAN
    /\ NoCapture

ServiceCall(op, session_id, out) ==
    /\ ret' = Called(op, session_id, out)
    /\ UNCHANGED <<active_sessions, audio_buffers, accepted, unreturned, prior,
                   device_sessions, active_streams, exports, tasks, resp,
                   chunk_numbers, ollama_post_processor, capture_vars>>

\* time.time() moves on
Tick ==
    /\ now < MaxClock
    /\ now' = now + 1
    /\ UNCHANGED <<active_sessions, audio_buffers, ret, accepted, unreturned, prior,
                   server_vars>>

\* transcribe_audio_chunk(session_id, audio_data, session_config) with audio
\* that is not empty
TranscribeAudioChunk(session_id, asr) ==
    LET out == transcribe_audio_chunk(session_transcripts, session_id, asr, now) IN
    /\ Len(TranscriptResults(session_transcripts, session_id)) < MaxSegments
    /\ session_transcripts' = out.transcripts
    /\ ServiceCall("transcribe_audio_chunk", session_id, Returned(out.val))
    /\ UNCHANGED now

\* get_final_transcript(session_id); reply is what the post-processor's
\* request comes back with if it is made
GetFinalTranscript(session_id, reply) ==
    /\ ServiceCall("get_final_transcript", session_id,
                   Returned(get_final_transcript(
                       session_transcripts, session_id,
                       [reply |-> reply, configured |-> ollama_post_processor])))
    /\ UNCHANGED <<now, session_transcripts>>

\* export_transcript(session_id, format)
ExportTranscript(session_id, format, reply) ==
    /\ ServiceCall("export_transcript", session_id,
                   export_transcript(
                       session_transcripts, session_id, format,
                       [reply |-> reply, configured |-> ollama_post_processor]))
    /\ UNCHANGED <<now, session_transcripts>>

TranscriptNext ==
    \/ Tick
    \/ \E id \in TranscriptIds, asr \in TranscriptAsrOutcomes :
          TranscribeAudioChunk(id, asr)
    \/ \E id \in TranscriptIds, reply \in OllamaReplies : GetFinalTranscript(id, reply)
    \/ \E id \in TranscriptIds, format \in ExportFormats, reply \in OllamaReplies :
          ExportTranscript(id, format, reply)

TranscriptSpec == TranscriptInit /\ [][TranscriptNext]_vars

\* ------------------------------------------------ the subtitles of a session
\* A TranscriptionService without a post-processor whose clock shows the
\* seconds since the epoch, and whose transcript is exported as subtitles.
ClockValues == {1, 59, 3600, 359999, 360000, 1730000000}

SrtInit ==
    /\ active_sessions = << >>
    /\ audio_buffers = << >>
    /\ now \in ClockValues
    /\ ret = NoCall
    /\ accepted = [id \in SessionIds |-> <<>>]
    /\ unreturned = [id \in SessionIds |-> <<>>]
    /\ prior = [id \in SessionIds |-> "none"]
    /\ session_transcripts = << >>
    /\ device_sessions = << >>
    /\ active_streams = {}
    /\ exports = << >>
    /\ tasks = [id \in SessionIds |-> NoTask]
    /\ resp = NoResponse
    /\ chunk_numbers = [id \in SessionIds |-> <<>>]
    /\ ollama_post_processor = FALSE
    /\ NoCapture

\* time.time() moves on
Elapse(t) ==
    /\ t > now
    /\ now' = t
    /\ UNCHANGED <<active_sessions, audio_buffers, ret, accepted, unreturned, prior,
                   server_vars>>

SrtNext ==
    \/ \E t \in ClockValues : Elapse(t)
    \/ \E id \in TranscriptIds, asr \in TranscriptAsrOutcomes :
          TranscribeAudioChunk(id, asr)
    \/ \E id \in TranscriptIds : ExportTranscript(id, "srt", NoReply)

SrtSpec == SrtInit /\ [][SrtNext]_vars

\* ------------------------------------------------- one id, used again
\* The client recording tools of one id together with the bridge's
\* cleanup_session, which no tool calls: the id is cleaned up and started again.
\* The model keeps one suspended stop per id, so an id is cleaned up only while
\* none is suspended; a new instance is started only while the service holds
\* fewer than MaxSegments results.
ReuseNext ==
    \/ \E arguments \in StartClientArguments :
          /\ \A id \in ToolIds :
                Len(TranscriptResults(session_transcripts, id)) < MaxSegments
          /\ ToolStartClientRecording(arguments)
    \/ \E arguments \in StopSendArguments : ToolSendAudioChunk(arguments)
    \/ \E arguments \in SessionArguments : ToolStopClientRecording(arguments)
    \/ \E id \in ToolIds, asr \in AsrOutcomes : AsrReturn(id, asr)
    \/ \E id \in ToolIds :
          /\ tasks[id].pc = "none"
          /\ CleanupSession(id)
          /\ UNCHANGED server_vars

ReuseSpec == Init /\ [][ReuseNext]_vars

\* ------------------------------------------------ a device capture stream
\* One AudioStream of AudioCapture: start_capture creates and starts it,
\* _record_thread opens the device and waits for the stop event, the device
\* calls _audio_callback on a thread of its own, get_audio_chunk reads what
\* was captured, stop_capture stops the stream.
MaxBuffers == 3
CaptureId == "s1"
\* what the device hands the callback: a buffer of frames, or nothing
InData == {<<1>>, <<2, 3>>, <<>>}

capture_rest == <<bridge_vars, session_transcripts, device_sessions, exports,
                  tasks, resp, chunk_numbers, ollama_post_processor>>

\* AudioStream.start
start(st) == [st EXCEPT !.is_recording = TRUE, !.stop_event = FALSE]

\* AudioStream.stop; joining the thread for at most five seconds changes nothing
stop(st) == [st EXCEPT !.is_recording = FALSE, !.stop_event = TRUE]

\* a wait that never sees the event
wait_unset(stop_event) == FALSE

\* stream.stop_event.wait(0.1): whether the event is set when the wait returns
wait(stop_event) == stop_event

\* start_capture, with PyAudio initialized (a thread is started) or not
StartCapture(pa) ==
    /\ CaptureId \notin active_streams
    /\ stream = NewAudioStream
    /\ thread = "none"
    /\ active_streams' = active_streams \cup {CaptureId}
    /\ stream' = start(NewAudioStream)
    /\ thread' = IF pa THEN "open" ELSE "none"
    /\ UNCHANGED <<reader, captured, returned, capture_rest>>

\* stop_capture; a coroutine, so it does not run inside get_audio_chunk
StopCapture ==
    /\ CaptureId \in active_streams
    /\ reader = NoReader
    /\ stream' = stop(stream)
    /\ active_streams' = active_streams \ {CaptureId}
    /\ UNCHANGED <<thread, reader, captured, returned, capture_rest>>

\* _record_thread up to the wait loop: pa.open gives a device stream that
\* delivers, or raises and the thread ends
ThreadOpen(opened) ==
    /\ thread = "open"
    /\ IF opened
       THEN /\ stream' = [stream EXCEPT !.stream = "active"]
            /\ thread' = "wait"
       ELSE /\ stream' = [stream EXCEPT !.is_recording = FALSE]
            /\ thread' = "done"
    /\ UNCHANGED <<active_streams, reader, captured, returned, capture_rest>>

\* the device stream ends by itself: is_active() is False from now on
DeviceEnds ==
    /\ stream.stream = "active"
    /\ stream' = [stream EXCEPT !.stream = "inactive"]
    /\ UNCHANGED <<active_streams, thread, reader, captured, returned, capture_rest>>

\* one turn of the wait loop
ThreadWait ==
    /\ thread = "wait"
    /\ thread' = IF wait(stream.stop_event) \/ stream.stream # "active"
                 THEN "stop_stream"
                 ELSE "wait"
    /\ UNCHANGED <<active_streams, stream, reader, captured, returned, capture_rest>>

\* audio_stream.stop_stream()
ThreadStopStream ==
    /\ thread = "stop_stream"
    /\ stream' = [stream EXCEPT !.stream = "stopped"]
    /\ thread' = "close"
    /\ UNCHANGED <<active_streams, reader, captured, returned, capture_rest>>

\* audio_stream.close()
ThreadClose ==
    /\ thread = "close"
    /\ stream' = [stream EXCEPT !.stream = "closed"]
    /\ thread' = "done"
    /\ UNCHANGED <<active_streams, reader, captured, returned, capture_rest>>

RecordThread ==
    \/ \E opened \in BOOLEAN : ThreadOpen(opened)
    \/ ThreadWait
    \/ ThreadStopStream
    \/ ThreadClose

\* _audio_callback, on the device's thread
AudioCallback(in_data) ==
    /\ stream.stream = "active"
    /\ Len(captured) < MaxBuffers
    /\ IF stream.is_recording /\ in_data # <<>>
       THEN /\ stream' = [stream EXCEPT !.audio_buffer = Append(@, in_data)]
            /\ captured' = Append(captured, in_data)
       ELSE UNCHANGED <<stream, captured>>
    /\ UNCHANGED <<active_streams, thread, reader, returned, capture_rest>>

\* get_audio_chunk and get_audio_data up to the join: an empty buffer is
\* answered at once
GetAudioDataJoin ==
    /\ CaptureId \in active_streams
    /\ reader = NoReader
    /\ reader' = IF stream.audio_buffer = <<>>
                 THEN NoReader
                 ELSE [audio_data |-> Join(stream.audio_buffer), pc |-> "clear"]
    /\ UNCHANGED <<active_streams, stream, thread, captured, returned, capture_rest>>

\* self.audio_buffer.clear() and the return
GetAudioDataClear ==
    /\ reader.pc = "clear"
    /\ stream' = [stream EXCEPT !.audio_buffer = <<>>]
    /\ returned' = returned \o reader.audio_data
    /\ reader' = NoReader
    /\ UNCHANGED <<active_streams, thread, captured, capture_rest>>

CaptureNext ==
    \/ \E pa \in BOOLEAN : StartCapture(pa)
    \/ StopCapture
    \/ RecordThread
    \/ DeviceEnds
    \/ \E in_data \in InData : AudioCallback(in_data)
    \/ GetAudioDataJoin
    \/ GetAudioDataClear

CaptureSpec == Init /\ [][CaptureNext]_vars

\* The record thread is a runnable thread of the process and its wait has a
\* timeout: it is scheduled again and again.
CaptureFairSpec == CaptureSpec /\ WF_vars(RecordThread)

\* ------------------------------------------- client sessions of any format
\* The client recording tools for sessions started with the default audio
\* format or with one of their own.
RateArguments ==
    {[session_id |-> id] : id \in ToolIds}
        \cup {[sample_rate |-> 8000, channels |-> 2, session_id |-> id] :
                 id \in ToolIds}
        \cup {[sample_rate |-> 44100, session_id |-> id] : id \in ToolIds}

RateNext ==
    \/ \E arguments \in RateArguments : ToolStartClientRecording(arguments)
    \/ \E arguments \in StopSendArguments : ToolSendAudioChunk(arguments)
    \/ \E arguments \in SessionArguments : ToolStopClientRecording(arguments)
    \/ \E id \in ToolIds, asr \in AsrOutcomes : AsrReturn(id, asr)

RateSpec == Init /\ [][RateNext]_vars

\* ------------------------------------------------------------------ claims
\* the step is a call of op for session_id (every call writes ret)
Calls(op, session_id) == ret'.op = op /\ ret'.sid = session_id

Stopped == ret.op = "stop_client_recording" /\ ret.exc = ""
Received == ret.op = "receive_audio_chunk" /\ ret.exc = ""
Started == ret.op = "start_client_recording" /\ ret.exc = ""

\* C1: the audio a stop returns is the concatenation, in arrival order, of the
\* decoded chunks of the receive_audio_chunk calls that were accepted (that
\* returned) for that session.
C1_FinalAudioIsAcceptedChunks ==
    Stopped => ret.val.audio_data = Join(accepted[ret.sid])

\* The same statement over the chunks that were stored, whatever the call that
\* stored them then answered: it differs from C1 only where a call stored its
\* chunk and then raised.
FinalAudioIsStoredChunks ==
    [][\A id \in SessionIds :
         (Calls("stop_client_recording", id) /\ ret'.exc = "")
             => ret'.val.audio_data = Join(unreturned[id])]_vars

\* C2: a start with an id that is in the session store raises and changes
\* neither the sessions nor the buffers.
C2_DuplicateStartFails ==
    [][\A id \in SessionIds :
         (Calls("start_client_recording", id) /\ id \in DOMAIN active_sessions)
             => /\ ret'.exc = "ValueError"
                /\ active_sessions' = active_sessions
                /\ audio_buffers' = audio_buffers]_vars

C2_Witness ==
    /\ ret.op = "start_client_recording"
    /\ ret.exc = "ValueError"
    /\ ret.sid \in DOMAIN audio_buffers
    /\ active_sessions[ret.sid].chunk_count >= 1
    /\ Len(audio_buffers[ret.sid]) >= 1

\* C4: a session whose status is completed keeps that status for as long as it
\* is in the store, whatever is called.
C4_CompletedIsFinal ==
    [][\A id \in SessionIds :
         (/\ id \in DOMAIN active_sessions
          /\ active_sessions[id].status = "completed"
          /\ id \in DOMAIN active_sessions')
             => active_sessions'[id].status = "completed"]_vars

C4_Witness ==
    /\ ret.op \in {"receive_audio_chunk", "stop_client_recording"}
    /\ ret.exc = "KeyError"
    /\ active_sessions[ret.sid].status = "completed"

\* C5: while a finalized session has not been cleaned up a start of its id
\* raises; cleanup_session removes the id from the store; a start of an id that
\* is not in the store returns, and the new session has no chunks and
\* chunk_count 0.
C5_ReuseOnlyAfterCleanup ==
    /\ [](/\ (ret.op = "start_client_recording" /\ prior[ret.sid] = "finalized")
               => ret.exc = "ValueError"
          /\ ret.op = "cleanup_session"
               => ret.sid \notin DOMAIN active_sessions \cup DOMAIN audio_buffers
          /\ Started
               => /\ audio_buffers[ret.sid] = <<>>
                  /\ active_sessions[ret.sid].chunk_count = 0
                  /\ active_sessions[ret.sid].status = "waiting_for_audio")
    /\ [][\A id \in SessionIds :
            (Calls("start_client_recording", id) /\ id \notin DOMAIN active_sessions)
                => ret'.exc = ""]_vars

C5_Witness == Started /\ prior[ret.sid] = "cleaned"

\* C6: once a stop has returned the combined audio the store holds no audio for
\* that id, and a stop returns only chunks that no earlier stop has returned.
C6_FinalizeClearsChunks ==
    /\ [](/\ Stopped => ~get_audio_data(audio_buffers, ret.sid).has
          /\ \A id \in DOMAIN active_sessions :
                active_sessions[id].status = "completed"
                    => ~get_audio_data(audio_buffers, id).has)
    /\ FinalAudioIsStoredChunks

C6_Witness == Stopped /\ ret.val.total_audio_bytes >= 2 /\ prior[ret.sid] = "finalized"

\* C7: for a session that is not finalized chunk_count is the number of chunks
\* in its buffer, and a receive_audio_chunk that returns reports the count after
\* the append, the previous count plus one.
C7_ChunkCountMatchesBuffer ==
    /\ [](\A id \in DOMAIN audio_buffers :
             active_sessions[id].chunk_count = Len(audio_buffers[id]))
    /\ [][\A id \in SessionIds :
            (Calls("receive_audio_chunk", id) /\ ret'.exc = "")
                => /\ ret'.val.chunk_number = active_sessions[id].chunk_count + 1
                   /\ ret'.val.chunk_number = Len(audio_buffers'[id])
                   /\ ret'.val.total_chunks = ret'.val.chunk_number]_vars

C7_Witness == Received /\ ret.val.chunk_number = 2

\* C8: get_client_session_status changes no session and no buffer, for a known
\* id and for an unknown one.
C8_StatusIsReadOnly ==
    [][\A id \in SessionIds :
         Calls("get_client_session_status", id)
             => /\ active_sessions' = active_sessions
                /\ audio_buffers' = audio_buffers]_vars

C8_Witness ==
    /\ ret.op = "get_client_session_status"
    /\ ret.exc = ""
    /\ ret.val.chunks_received >= 1
    /\ ret.val.status = "receiving_audio"

\* The tools of the client-audio flow that take a session id and answer from
\* the session store or from the transcripts.
SessionTools ==
    {"stop_client_recording", "get_client_session_status", "export_transcript",
     "send_audio_chunk", "get_transcript_content"}

\* the step answered a call that passed every required argument
WellFormedCall == ~(resp'.kind = "error" /\ resp'.exc = "KeyError")

\* C3: a call of a session tool (send chunk, stop, status, export transcript,
\* get transcript content) with an id that is not in the session store is
\* answered with the session-not-found error, never with a result.
C3_UnknownSessionIsAnError ==
    [][(/\ resp'.tool \in SessionTools
        /\ resp'.sid \in ToolIds
        /\ resp'.sid \notin DOMAIN active_sessions
        /\ WellFormedCall)
           => /\ resp'.kind = "error"
              /\ resp'.val.msg = "not found"]_vars

\* The part of C3 that the three tools backed by the bridge satisfy.
BridgeToolsRejectUnknownSession ==
    [][(/\ resp'.tool \in {"stop_client_recording", "get_client_session_status",
                           "send_audio_chunk"}
        /\ resp'.sid \in ToolIds
        /\ resp'.sid \notin DOMAIN active_sessions
        /\ WellFormedCall)
           => /\ resp'.kind = "error"
              /\ resp'.exc = "ValueError"
              /\ resp'.val.msg = "not found"]_vars

\* C9: every tool call is answered: no exception leaves call_tool, an
\* exception raised by a bridge method or by json.dumps becomes an error
\* response that names it, a suspended stop answers when it resumes, and the
\* calls after an error response are answered in the same way.
C9_EveryCallIsAnswered ==
    /\ [](/\ resp.kind \in {"none", "result", "error", "pending"}
          /\ resp.kind = "error" => resp.exc \in ExceptionClasses
          /\ resp.kind = "pending" => tasks[resp.sid].pc = "asr")
    /\ [][/\ (ret'.op # "none" /\ ret'.exc # "")
               => (resp'.kind = "error" /\ resp'.exc = ret'.exc)
          /\ \A id \in ToolIds :
                (tasks[id].pc = "asr" /\ tasks'[id].pc = "none")
                    => (resp'.sid = id /\ resp'.kind \in {"result", "error"})
          /\ resp'.kind \in {"result", "error", "pending"}]_vars

\* a status call is served after the stop of the same session failed in
\* json.dumps once the speech recognition had come back
C9_Witness ==
    /\ resp.tool = "get_client_session_status"
    /\ resp.kind = "result"
    /\ resp.val.status = "completed"
    /\ tasks[resp.sid].pc = "none"
    /\ resp.sid \in DOMAIN session_transcripts

\* C10: the send_audio_chunk requests of a session that were accepted are as
\* many as the chunks the session holds and as its chunk_count, and they were
\* answered with distinct chunk numbers.
C10_ChunkRequestsDoNotInterleave ==
    \A id \in DOMAIN audio_buffers :
        /\ Len(audio_buffers[id]) = Len(chunk_numbers[id])
        /\ active_sessions[id].chunk_count = Len(chunk_numbers[id])
        /\ \A i, j \in 1..Len(chunk_numbers[id]) :
              i # j => chunk_numbers[id][i] # chunk_numbers[id][j]

\* The same for the sessions whose chunks are not stored by requests that then
\* raise: send_audio_chunk runs without an await, so the requests are
\* serialized and the n-th answer carries the number n.
ChunkRequestsAreSerialized ==
    \A id \in DOMAIN audio_buffers :
        LET config == active_sessions[id].config IN
        Get(config.sample_rate, DefaultSampleRate)
                * Get(config.channels, DefaultChannels) # 0
            => /\ Len(audio_buffers[id]) = Len(chunk_numbers[id])
               /\ active_sessions[id].chunk_count = Len(chunk_numbers[id])
               /\ chunk_numbers[id] = [i \in 1..Len(chunk_numbers[id]) |-> i]

\* what the store holds for id is the same in f and in g
SameEntry(f, g, id) ==
    /\ id \in DOMAIN f <=> id \in DOMAIN g
    /\ id \in DOMAIN f => f[id] = g[id]

\* C11: a start, add-chunk, stop or status call (or a cleanup) for one session
\* leaves the stored chunks, the chunk_count and the status of every other
\* session as they were.
C11_SessionsAreIndependent ==
    [][\A a \in SessionIds, b \in SessionIds :
          (ret'.op # "none" /\ ret'.sid = a /\ b # a)
              => /\ SameEntry(active_sessions, active_sessions', b)
                 /\ SameEntry(audio_buffers, audio_buffers', b)]_vars

\* s1 was stopped with audio while s2 was receiving and held two chunks
C11_Witness ==
    /\ Stopped
    /\ ret.sid = "s1"
    /\ ret.val.total_audio_bytes >= 1
    /\ "s2" \in DOMAIN audio_buffers
    /\ Len(audio_buffers["s2"]) = 2
    /\ active_sessions["s2"].status = "receiving_audio"
    /\ active_sessions["s2"].chunk_count = 2

\* the speech recognition of session a is running
AsrInFlight(a) == tasks[a].pc = "asr"

\* a send_audio_chunk request for session b with a decodable chunk
SendFor(b) == ToolSendAudioChunk([audio_data |-> B64_A, session_id |-> b])

\* C12: while the speech recognition of one session is in flight a
\* send_audio_chunk request for another session can be handled, and it is
\* handled to its response in one step of the event loop, with the speech
\* recognition still in flight afterwards.
C12_ChunksDoNotWaitForAsr ==
    /\ [](\A a \in SessionIds, b \in SessionIds :
             (/\ AsrInFlight(a)
              /\ b # a
              /\ b \in DOMAIN audio_buffers => Len(audio_buffers[b]) < MaxChunks)
                 => ENABLED (LoopFree /\ SendFor(b)))
    /\ [][\A a \in SessionIds :
             (/\ AsrInFlight(a)
              /\ resp'.tool = "send_audio_chunk"
              /\ resp'.sid # a)
                 => /\ resp'.kind \in {"result", "error"}
                    /\ tasks'[a] = tasks[a]]_vars

\* a chunk of s2 was stored and answered while the speech recognition of s1
\* was running
C12_Witness ==
    /\ AsrInFlight("s1")
    /\ resp.tool = "send_audio_chunk"
    /\ resp.sid = "s2"
    /\ resp.kind = "result"
    /\ resp.val.chunk_number = 1
    /\ Len(audio_buffers["s2"]) = 1

\* the step is a stop_client_recording call that the bridge answered
BridgeStopped ==
    /\ resp'.tool = "stop_client_recording"
    /\ ret'.op = "stop_client_recording"
    /\ ret'.exc = ""

\* C13: when the audio a stop hands on is empty (no chunks, or chunks of no
\* bytes) no speech recognition is started, nothing is recorded in the
\* session's transcript results, and the transcript of the result is empty.
C13_EmptyAudioIsNotTranscribed ==
    /\ [](\A id \in SessionIds :
             tasks[id].pc = "asr" => tasks[id].audio_data # <<>>)
    /\ [][(BridgeStopped /\ ret'.val.audio_data = <<>>)
             => /\ tasks' = tasks
                /\ session_transcripts' = session_transcripts
                /\ LET result == server_stop_client_recording(OfRet(ret')).val IN
                   /\ result.transcript.full_text = <<>>
                   /\ result.transcript.segments = <<>>
                   /\ result.transcript.word_count = 0]_vars

\* a session that received two chunks of no bytes was stopped
C13_Witness ==
    /\ Stopped
    /\ resp.tool = "stop_client_recording"
    /\ ret.val.total_chunks = 2
    /\ ret.val.audio_data = <<>>
    /\ tasks[ret.sid].pc = "none"
    /\ ret.sid \notin DOMAIN session_transcripts

\* C14: when the model call of a speech recognition fails, transcribing fails:
\* transcribe_audio_chunk raises, and nothing is recorded as a segment of the
\* session's transcript.
C14_AsrFailureIsAnError ==
    [][\A id \in ToolIds :
          AsrReturn(id, <<Absent>>)
              => /\ transcribe_audio_chunk(session_transcripts, id, <<Absent>>,
                                           now).exc # ""
                 /\ session_transcripts' = session_transcripts]_vars

\* What the code does with a failed model call: the failure is recorded as a
\* segment whose text is the error message and whose confidence is 0.
AsrFailureBecomesSegment ==
    [][\A id \in ToolIds :
          AsrReturn(id, <<Absent>>)
              => LET results == session_transcripts'[id]
                     last == results[Len(results)]
                 IN /\ last.text = ErrorText
                    /\ last.confidence = 0
                    /\ get_final_transcript(session_transcripts', id,
                                            NoPostProcessor).full_text # <<>>]_vars

\* the replies of a cleanup call that failed: no reply at all, or a status
\* other than 200
FailedReplies == {reply \in OllamaReplies : reply.status_code # 200}

Assembled(id) == AssembledText(TranscriptResults(session_transcripts, id))

\* C15: with a post-processor configured, a request for the transcript whose
\* cleanup call fails (no reply, or a status other than 200) still returns
\* normally, and the transcript it returns has the assembled text as its
\* full_text and post_processed = false.
C15_CleanupFailureKeepsAssembledText ==
    [][\A id \in TranscriptIds, reply \in FailedReplies :
          /\ (ollama_post_processor /\ ret'.op = "get_final_transcript"
                  /\ GetFinalTranscript(id, reply))
                => /\ ret'.exc = ""
                   /\ ret'.val.full_text = Assembled(id)
                   /\ ret'.val.post_processed = FALSE
          /\ \A format \in ExportFormats \cap {"json", "txt", "srt"} :
                (ollama_post_processor /\ ret'.op = "export_transcript"
                    /\ ExportTranscript(id, format, reply))
                  => /\ ret'.exc = ""
                     /\ ret'.val.transcript.full_text = Assembled(id)
                     /\ ret'.val.transcript.post_processed = FALSE]_vars

C15_Witness ==
    /\ ollama_post_processor
    /\ ret.op = "get_final_transcript"
    /\ ret.exc = ""
    /\ Len(ret.val.segments) = 2
    /\ ret.val.full_text = <<"h", "i", " ", "y", "o">>
    /\ ret.val.post_processed = FALSE

\* the step is a call that returns the transcript of id, made while the
\* post-processor's request would come back with reply
ReturnsTranscript(id, reply, transcript) ==
    \/ /\ ret'.op = "get_final_transcript"
       /\ GetFinalTranscript(id, reply)
       /\ transcript = ret'.val
    \/ /\ ret'.op = "export_transcript"
       /\ ret'.exc = ""
       /\ \E format \in {f \in ExportFormats : Lower(f) = ret'.val.format} :
              ExportTranscript(id, format, reply)
       /\ transcript = ret'.val.transcript

\* the cleanup call was made and succeeded: a post-processor is configured,
\* there is text to send, and the request came back with status 200
CleanupSucceeded(id, reply) ==
    /\ ollama_post_processor
    /\ Assembled(id) # <<>>
    /\ reply.status_code = 200

ReturnedTranscripts ==
    {ret.val : id \in {i \in TranscriptIds : ret.op = "get_final_transcript"}}
        \cup {ret.val.transcript :
                 id \in {i \in TranscriptIds :
                            ret.op = "export_transcript" /\ ret.exc = ""}}

\* C16 as stated: in every returned transcript, post_processed is true exactly
\* when the cleanup call succeeded and the text the service returned differs
\* from the assembled text, and full_text is then the text the service returned.
C16_PostProcessedIffReplyDiffers ==
    [][\A id \in TranscriptIds, reply \in OllamaReplies :
          \A transcript \in ReturnedTranscripts' :
              ReturnsTranscript(id, reply, transcript)
                => /\ transcript.post_processed
                        <=> (CleanupSucceeded(id, reply)
                                /\ reply.response # Assembled(id))
                   /\ transcript.post_processed
                        => transcript.full_text = reply.response]_vars

\* C16, amended: in every returned transcript, post_processed is true exactly
\* when the cleanup call succeeded and the text the service returned, with its
\* leading and trailing whitespace removed, differs from the assembled text;
\* full_text is then that trimmed text, and the assembled text otherwise.
C16_PostProcessedIffTrimmedReplyDiffers ==
    [][\A id \in TranscriptIds, reply \in OllamaReplies :
          \A transcript \in ReturnedTranscripts' :
              ReturnsTranscript(id, reply, transcript)
                => /\ transcript.post_processed
                        <=> (CleanupSucceeded(id, reply)
                                /\ Strip(reply.response) # Assembled(id))
                   /\ transcript.full_text =
                          IF transcript.post_processed
                          THEN Strip(reply.response) ELSE Assembled(id)]_vars

C16_Witness ==
    /\ ollama_post_processor
    /\ ret.op = "get_final_transcript"
    /\ AssembledText(ret.val.segments) = <<"h", "i">>
    /\ ret.val.full_text = <<"H", "i", ".">>
    /\ ret.val.post_processed

IsBlank(text) == \A i \in 1..Len(text) : text[i] = " "

RECURSIVE JoinNonBlank(_)
\* the texts of the segments that are not blank, in order, one space between
\* each two of them
JoinNonBlank(segments) ==
    IF segments = <<>> THEN <<>>
    ELSE LET text == Head(segments).text
             rest == JoinNonBlank(Tail(segments))
         IN IF IsBlank(text) THEN rest
            ELSE IF \A i \in 1..Len(Tail(segments)) : IsBlank(Tail(segments)[i].text)
                 THEN text
                 ELSE text \o <<" ">> \o rest

\* C17: without a post-processor, the full_text of a returned transcript is the
\* texts of its segments joined by single spaces in segment order, the
\* segments whose text is empty or only whitespace left out; and its segments
\* are the session's results in the order they were stored.
C17_FullTextJoinsNonBlankSegments ==
    (~ollama_post_processor /\ ret.op = "get_final_transcript")
        => /\ ret.val.segments = TranscriptResults(session_transcripts, ret.sid)
           /\ ret.val.full_text = JoinNonBlank(ret.val.segments)

C17_Witness ==
    /\ ~ollama_post_processor
    /\ ret.op = "get_final_transcript"
    /\ Len(ret.val.segments) = 2
    /\ ret.val.segments[1].text = <<>>
    /\ ret.val.full_text = <<"y", "o">>

\* the number of maximal runs of characters other than whitespace in text
Tokens(text) ==
    Cardinality({i \in 1..Len(text) :
                    text[i] # " " /\ (i = 1 \/ text[i - 1] = " ")})

\* C18: in every returned transcript, word_count is the number of
\* whitespace-separated tokens of the full_text of that same transcript, also
\* when the post-processor replaced the text.
C18_WordCountIsTokensOfFullText ==
    \A transcript \in ReturnedTranscripts :
        transcript.word_count = Tokens(transcript.full_text)

C18_Witness ==
    /\ ret.op = "get_final_transcript"
    /\ ret.val.post_processed
    /\ Tokens(AssembledText(ret.val.segments)) = 2
    /\ ret.val.full_text = <<"H", "i", ".">>
    /\ ret.val.word_count = 1

\* C19: the duration of a returned transcript is the largest end of its
\* segments minus the smallest start of its segments, and 0 when it has no
\* segments.
C19_DurationIsSegmentSpan ==
    \A transcript \in ReturnedTranscripts :
        LET segments == transcript.segments
            starts == {SegmentStart(segments[i]) : i \in 1..Len(segments)}
            ends == {SegmentEnd(segments[i]) : i \in 1..Len(segments)}
        IN transcript.duration =
               IF segments = <<>> THEN 0 ELSE Max(ends) - Min(starts)

\* What the code computes: the time between the creation of the first and of
\* the last result, so that the transcript of a single segment has duration 0.
DurationIsTimestampSpread ==
    \A transcript \in ReturnedTranscripts :
        LET segments == transcript.segments IN
        /\ Len(segments) <= 1 => transcript.duration = 0
        /\ Len(segments) >= 1
             => \E i, j \in 1..Len(segments) :
                   /\ transcript.duration =
                          segments[j].timestamp - segments[i].timestamp
                   /\ \A k \in 1..Len(segments) :
                          /\ segments[i].timestamp <= segments[k].timestamp
                          /\ segments[k].timestamp <= segments[j].timestamp

\* the step is an export_transcript tool call with a session_id and format
ExportsAs(format) ==
    /\ resp'.tool = "export_transcript"
    /\ \E arguments \in ExportArguments :
          /\ DOMAIN arguments = {"session_id", "format"}
          /\ arguments.format = format
          /\ ToolExportTranscript(arguments, NoReply)

FailsUnsupported(format) ==
    /\ \A id \in ToolIds :
          export_transcript(session_transcripts, id, format, NoPostProcessor).exc
              = "ValueError"
    /\ resp'.kind = "result"
    /\ resp'.val.success = FALSE
    /\ resp'.val.error = "Unsupported export format"
    /\ exports' = exports

\* C20 as stated: an export whose format is any value other than json, txt or
\* srt fails with the unsupported-format error; export_transcript_to_file
\* then reports success = false and writes no file.
C20_OtherFormatsFail ==
    [][\A format \in ExportFormats \ {"json", "txt", "srt"} :
          ExportsAs(format) => FailsUnsupported(format)]_vars

\* C20, amended: an export whose format is, letter case set aside, none of
\* json, txt and srt fails with the unsupported-format error;
\* export_transcript_to_file then reports success = false and writes no file.
C20_OtherFormatsFailWhateverTheCase ==
    [][\A format \in ExportFormats \ {"JSON", "json", "txt", "srt"} :
          ExportsAs(format) => FailsUnsupported(format)]_vars

C20_Witness ==
    /\ resp.tool = "export_transcript"
    /\ resp.kind = "result"
    /\ resp.val.format = "xml"
    /\ resp.val.success = FALSE
    /\ resp.sid \in DOMAIN session_transcripts
    /\ exports = << >>

RECURSIVE Num(_)
\* the number a sequence of decimal digits writes
Num(digits) ==
    IF digits = <<>> THEN 0
    ELSE 10 * Num(SubSeq(digits, 1, Len(digits) - 1)) + digits[Len(digits)]

\* the whole seconds a written timestamp stands for
SrtSeconds(stamp) ==
    Num(stamp.hours) * 3600 + Num(stamp.minutes) * 60 + Num(stamp.seconds)

\* the last call exported the transcript of its session as subtitles
SrtExported ==
    /\ ret.op = "export_transcript"
    /\ ret.exc = ""
    /\ ret.val.format = "srt"

\* C21: an SRT export has exactly one block of four lines per segment, in
\* segment order and numbered from 1: the index, the start and the end, the
\* segment's text, and a blank line; the end is 3 seconds after the start.
C21_SrtHasOneBlockPerSegment ==
    SrtExported
        => LET content == ret.val.content
               segments == TranscriptResults(session_transcripts, ret.sid)
           IN /\ Len(content) = 4 * Len(segments)
              /\ \A k \in 1..Len(segments) :
                    /\ content[4 * k - 3].line = "index"
                    /\ Num(content[4 * k - 3].digits) = k
                    /\ content[4 * k - 2].line = "times"
                    /\ SrtSeconds(content[4 * k - 2].start) = segments[k].timestamp
                    /\ SrtSeconds(content[4 * k - 2].end)
                           = SrtSeconds(content[4 * k - 2].start) + 3
                    /\ content[4 * k - 2].end.milliseconds
                           = content[4 * k - 2].start.milliseconds
                    /\ content[4 * k - 1] = [text |-> segments[k].text, line |-> "text"]
                    /\ content[4 * k] = [line |-> "blank"]

C21_Witness ==
    /\ SrtExported
    /\ Len(ret.val.content) = 8
    /\ ret.val.content[5].digits = <<2>>
    /\ ret.val.content[3].text = <<"h", "i">>
    /\ ret.val.content[7].text = <<"y", "o">>
    /\ SrtSeconds(ret.val.content[2].end) = 62

\* the timestamps an SRT export wrote, each with the seconds it stands for
WrittenStamps ==
    LET content == ret.val.content
        segments == TranscriptResults(session_transcripts, ret.sid)
    IN {[stamp |-> content[4 * k - 2].start, at |-> segments[k].timestamp] :
            k \in {i \in 1..Len(segments) : SrtExported}}
       \cup {[stamp |-> content[4 * k - 2].end, at |-> segments[k].timestamp + 3] :
                k \in {i \in 1..Len(segments) : SrtExported}}

\* C22: every timestamp an SRT export writes for a stored segment has exactly
\* two digits of hours, of minutes and of seconds and three of milliseconds,
\* minutes and seconds below 60, and its fields add up to the segment's
\* timestamp.
C22_SrtTimestampsAreTwoDigitFields ==
    \A w \in WrittenStamps :
        /\ Len(w.stamp.hours) = 2
        /\ Len(w.stamp.minutes) = 2
        /\ Len(w.stamp.seconds) = 2
        /\ Len(w.stamp.milliseconds) = 3
        /\ Num(w.stamp.minutes) < 60
        /\ Num(w.stamp.seconds) < 60
        /\ SrtSeconds(w.stamp) = w.at
        /\ Num(w.stamp.milliseconds) = 0

\* What the code writes: the fields add up and minutes and seconds have two
\* digits, but the hours have as many digits as the hours since the epoch need.
SrtHoursAreNotCut ==
    \A w \in WrittenStamps :
        /\ Len(w.stamp.minutes) = 2
        /\ Len(w.stamp.seconds) = 2
        /\ Len(w.stamp.milliseconds) = 3
        /\ Num(w.stamp.minutes) < 60
        /\ Num(w.stamp.seconds) < 60
        /\ SrtSeconds(w.stamp) = w.at
        /\ Len(w.stamp.hours) = 2 <=> w.at < 360000

\* the client session id changes its status from one value to another in the step
StatusChange(id, from, to) ==
    /\ id \in DOMAIN active_sessions
    /\ id \in DOMAIN active_sessions'
    /\ active_sessions[id].status = from
    /\ active_sessions'[id].status = to

ClientStatuses == {"waiting_for_audio", "receiving_audio", "completed"}

\* C23: a client session changes its status only from waiting_for_audio to
\* receiving_audio, in a receive_audio_chunk call that is accepted, and from
\* receiving_audio to completed, in a stop_client_recording call.
C23_OnlyTwoStatusChanges ==
    [][\A id \in SessionIds : \A from, to \in ClientStatuses :
          (from # to /\ StatusChange(id, from, to))
              => \/ /\ from = "waiting_for_audio"
                    /\ to = "receiving_audio"
                    /\ ret' = [ret' EXCEPT !.exc = "", !.op = "receive_audio_chunk",
                                           !.sid = id]
                 \/ /\ from = "receiving_audio"
                    /\ to = "completed"
                    /\ ret' = [ret' EXCEPT !.exc = "", !.op = "stop_client_recording",
                                           !.sid = id]]_vars

\* The status changes the code makes: a session that received no chunk is
\* completed by stop_client_recording all the same, and receive_audio_chunk
\* sets receiving_audio also in a call that then fails with a division by zero.
StatusChangesOfTheBridge ==
    [][\A id \in SessionIds : \A from, to \in ClientStatuses :
          (from # to /\ StatusChange(id, from, to))
              => \/ /\ from = "waiting_for_audio"
                    /\ to = "receiving_audio"
                    /\ ret'.op = "receive_audio_chunk"
                    /\ ret'.sid = id
                    /\ ret'.exc \in {"", "ZeroDivisionError"}
                 \/ /\ from \in {"waiting_for_audio", "receiving_audio"}
                    /\ to = "completed"
                    /\ ret' = [ret' EXCEPT !.exc = "", !.op = "stop_client_recording",
                                           !.sid = id]]_vars

\* the step is a start_recording call for id that names both devices, and so
\* calls start_recording_session
StartsRecording(id) ==
    /\ resp'.tool = "start_recording"
    /\ resp'.sid = id
    /\ \E arguments \in StartRecordingArguments :
          /\ {"session_id", "microphone_device", "speaker_device"} \subseteq DOMAIN arguments
          /\ arguments.session_id = id
          /\ ToolStartRecording(arguments)

\* C24: start_recording_session never overwrites an entry of the server's
\* session map: a start for an id that has an entry, recording or completed,
\* fails and leaves the map as it is.
C24_StartNeverOverwritesAnEntry ==
    [][\A id \in ToolIds :
          (id \in DOMAIN device_sessions /\ StartsRecording(id))
              => /\ resp'.kind = "error"
                 /\ device_sessions' = device_sessions]_vars

\* What the code does: a start for an id that is recording fails, and a start
\* with both devices for an id whose session is completed succeeds and puts a
\* new entry in the place of the completed one, final transcript included.
CompletedEntryIsOverwritten ==
    [][\A id \in ToolIds :
          (id \in DOMAIN device_sessions /\ StartsRecording(id))
              => IF device_sessions[id].status = "recording"
                 THEN resp'.kind = "error" /\ device_sessions' = device_sessions
                 ELSE /\ resp'.kind = "result"
                      /\ device_sessions[id].status = "completed"
                      /\ device_sessions'[id].status = "recording"
                      /\ device_sessions'[id].final_transcript = NoVal]_vars

\* the suspended stop_client_recording of id runs to its end in the step
StopResumes(id) == tasks[id].pc = "asr" /\ tasks'[id].pc = "none"

\* the transcript the server's stop_client_recording returns when it resumes
ResumedTranscript(id) ==
    server_stop_client_recording_resume(session_transcripts', tasks[id].result,
                                        id).val.transcript

\* C25: the transcript a stop of a client session returns is built from that
\* session instance alone. An instance is transcribed once, by the stop that
\* completes it, so the transcript has that one segment and no segment of an
\* earlier instance of the id, cleaned up since.
C25_TranscriptIsOfThisInstance ==
    [][\A id \in ToolIds :
          StopResumes(id)
              => LET segments == ResumedTranscript(id).segments IN
                 /\ Len(segments) = 1
                 /\ segments[1] = session_transcripts'[id][Len(session_transcripts'[id])]
                 /\ segments[1].timestamp = now]_vars

\* What the code does: no operation removes a result from the service, and the
\* transcript a stop returns holds every result ever stored under the id.
ResultsAreNeverRemoved ==
    [][\A id \in ToolIds :
          /\ id \in DOMAIN session_transcripts => id \in DOMAIN session_transcripts'
          /\ Len(TranscriptResults(session_transcripts, id))
                 <= Len(TranscriptResults(session_transcripts', id))
          /\ StopResumes(id)
                => /\ ResumedTranscript(id).segments = session_transcripts'[id]
                   /\ Len(session_transcripts'[id])
                          = Len(TranscriptResults(session_transcripts, id)) + 1]_vars

\* a receive_audio_chunk call for id raised
ReceiveFails(id) == Calls("receive_audio_chunk", id) /\ ret'.exc # ""

\* the chunks stored for id, none when the id has no buffer
StoredChunks(B, id) == IF id \in DOMAIN B THEN B[id] ELSE <<>>

\* C26: a receive_audio_chunk call that raises, whatever the reason, leaves the
\* session's stored chunks, chunk_count, status and total_audio_duration as
\* they were before the call.
C26_FailedChunkChangesNothing ==
    [][\A id \in SessionIds :
          ReceiveFails(id)
              => /\ StoredChunks(audio_buffers', id) = StoredChunks(audio_buffers, id)
                 /\ DOMAIN active_sessions' = DOMAIN active_sessions
                 /\ id \in DOMAIN active_sessions
                       => LET before == active_sessions[id]
                              after == active_sessions'[id]
                          IN /\ after.chunk_count = before.chunk_count
                             /\ after.status = before.status
                             /\ after.total_audio_duration
                                    = before.total_audio_duration]_vars

\* What the code does: the calls that raise before the chunk is stored change
\* nothing; the call that raises on the division by a zero sample_rate or
\* channels has by then stored the chunk, counted it and set the status, and
\* leaves only total_audio_duration as it was.
FailedChunkIsStoredOnZeroDivision ==
    [][\A id \in SessionIds :
          ReceiveFails(id)
              => IF ret'.exc = "ZeroDivisionError"
                 THEN LET before == active_sessions[id]
                          after == active_sessions'[id]
                      IN /\ Len(audio_buffers'[id]) = Len(audio_buffers[id]) + 1
                         /\ after.chunk_count = before.chunk_count + 1
                         /\ after.status = "receiving_audio"
                         /\ after.total_audio_duration = before.total_audio_duration
                 ELSE /\ active_sessions' = active_sessions
                      /\ audio_buffers' = audio_buffers]_vars

\* a stop_client_recording tool call for a session that is completed
StopsCompleted(id) ==
    /\ Calls("stop_client_recording", id)
    /\ id \in DOMAIN active_sessions
    /\ active_sessions[id].status = "completed"

\* C27: a stop of a client session that is already completed is answered with
\* an error, starts no speech recognition, and leaves the session's status,
\* end_time, final_audio_size and chunk_count as the first stop left them.
C27_SecondStopChangesNothing ==
    [][\A id \in ToolIds :
          StopsCompleted(id)
              => /\ resp'.kind = "error"
                 /\ tasks' = tasks
                 /\ LET before == active_sessions[id]
                        after == active_sessions'[id]
                    IN /\ after.status = before.status
                       /\ after.end_time = before.end_time
                       /\ after.final_audio_size = before.final_audio_size
                       /\ after.chunk_count = before.chunk_count]_vars

\* What the code does: the second stop finds no buffer, joins no chunks, writes
\* the status, the current time and a final_audio_size of 0 to the record, and
\* only then raises on the deletion of the buffer.
SecondStopRewritesTheRecord ==
    [][\A id \in ToolIds :
          StopsCompleted(id)
              => /\ resp'.kind = "error"
                 /\ resp'.exc = "KeyError"
                 /\ tasks' = tasks
                 /\ active_sessions'[id] =
                        [active_sessions[id] EXCEPT !.end_time = now,
                                                    !.final_audio_size = 0]]_vars

\* every byte the callback stored is returned or still in the buffer, in order
NothingLost == returned \o Join(stream.audio_buffer) = Join(captured)

\* C28: every buffer the audio callback appended is returned by exactly one
\* get_audio_data call, in capture order, however the callback thread and
\* get_audio_data interleave: what was returned, followed by what is still
\* buffered, is what was captured.
C28_EveryBufferIsReturnedOnce == NothingLost

\* the clear of a get_audio_data call whose buffer grew since its join
ClearsMoreThanJoined ==
    /\ reader.pc = "clear"
    /\ reader'.pc = "none"
    /\ reader.audio_data # Join(stream.audio_buffer)

\* What the code does: nothing is returned twice or out of order, and a buffer
\* is lost only when the callback appends it between the join and the clear of
\* a get_audio_data call, which then clears it unreturned.
BuffersAreLostOnlyByTheClear ==
    [][(NothingLost /\ ~ClearsMoreThanJoined) => NothingLost']_vars

StopTranscribes(id) == tasks[id].pc = "none" /\ tasks'[id].pc = "asr"

\* the sample rate and the channels a session was started with, the defaults
\* where the start gave none
StartedFormat(session) ==
    [sample_rate |-> Get(session.config.sample_rate, DefaultSampleRate),
     channels |-> Get(session.config.channels, DefaultChannels)]

\* the sample rate and the channels of a config
FormatOf(config) == [sample_rate |-> config.sample_rate, channels |-> config.channels]

\* C30: the session config the stop of a client session passes to the speech
\* recognition carries the sample rate and the channels the session was
\* started with.
C30_TranscribedWithStartedFormat ==
    [][\A id \in ToolIds :
          StopTranscribes(id)
              => FormatOf(tasks'[id].session_config)
                     = StartedFormat(active_sessions[id])]_vars

\* What the code does: every client session is transcribed as 16000 Hz mono.
TranscribedAsSixteenKilohertzMono ==
    [][\A id \in ToolIds :
          StopTranscribes(id)
              => FormatOf(tasks'[id].session_config)
                     = [sample_rate |-> StopSampleRate, channels |-> StopChannels]]_vars

====
